---- MODULE Spec2Model ----
(***************************************************************************)
(* pi_monitor: the collector process (src/pi_monitor.py) and the read path *)
(* of the web process (src/pi_monitor_web.py, read_logs), which share the  *)
(* durable log DATA_FILE and the scratch file                              *)
(* /dev/shm/pi_monitor_buffer.json.                                        *)
(*                                                                         *)
(* Time is counted in half seconds.  A timestamp string is the seconds as  *)
(* four decimal digits, followed by ".5" when the half-second part is not  *)
(* zero: datetime.isoformat() is fixed-width up to the seconds and omits   *)
(* the fraction when the microseconds are 0.  Strings are sequences of     *)
(* character codes and are compared as Python compares str.                *)
(*                                                                         *)
(* The sampling interval, the flush period and the retention are scaled    *)
(* down to a few time units.  Every file written here stays below the      *)
(* 8 KiB of Python's BufferedWriter, so what a file object wrote reaches   *)
(* the file when the object is closed; open(..., 'w') truncates at once.   *)
(***************************************************************************)
EXTENDS Integers, Sequences, FiniteSets, TLC

\* ------------------------------------------------------------------ bounds
StartTime == 16      \* the clock when the collector starts
Horizon == 7         \* the collector is followed for this many time units
Jitter == 1          \* a tick takes INTERVAL plus at most this long
MaxTime == StartTime + Horizon

\* ------------------------------------------------ configuration (scaled)
INTERVAL == 2          \* monitoring.interval
RETENTION_DAYS == 8    \* monitoring.retention_days, as a duration
FLUSH_SECONDS == 6     \* the 3600 of the hourly flush condition

Readings == {0, 50}    \* what CPUMetric.collect() may return

\* a path that does not exist (open() raises), for the log and the scratch
NoFile == [exists |-> FALSE, lines |-> <<>>]
NoShm == [exists |-> FALSE, items |-> <<>>, closed |-> FALSE]
\* a regular file holding these lines
File(ls) == [exists |-> TRUE, lines |-> ls]

\* ------------------------------------------------------ timestamp strings
Digit(d) == 48 + d
Dot == 46

\* datetime.isoformat(): "SSSS" or "SSSS.5"
isoformat(t) ==
  <<Digit(((t \div 2) \div 1000) % 10), Digit(((t \div 2) \div 100) % 10),
    Digit(((t \div 2) \div 10) % 10), Digit((t \div 2) % 10)>>
     \o (IF t % 2 = 0 THEN <<>> ELSE <<Dot, Digit(5)>>)

\* datetime.fromisoformat()
fromisoformat(s) ==
  2 * (1000 * (s[1] - 48) + 100 * (s[2] - 48) + 10 * (s[3] - 48) + (s[4] - 48))
    + (IF Len(s) > 4 THEN 1 ELSE 0)

\* Python's str.__lt__: code points left to right, a proper prefix is less
RECURSIVE StrLT(_, _)
StrLT(a, b) ==
  IF b = <<>> THEN FALSE
  ELSE IF a = <<>> THEN TRUE
  ELSE IF Head(a) # Head(b) THEN Head(a) < Head(b)
  ELSE StrLT(Tail(a), Tail(b))

\* Python's str.__ge__
StrGE(a, b) == ~StrLT(a, b)

\* ------------------------------------------------------------------ JSON
\* json.dumps(entry): one line of the durable log
json_dumps(e) == <<e.timestamp, e.cpu_usage>>

\* json.loads(line); raises on a line that is not a whole object
WellFormed(l) == Len(l) = 2
json_loads(l) == [timestamp |-> l[1], cpu_usage |-> l[2]]

\* the lines "for e in list: f.write(json.dumps(e) + '\n')" writes
DumpLinesReversed(list) ==
  [i \in 1..Len(list) |-> json_dumps(list[Len(list) + 1 - i])]
DumpLines(list) == [i \in 1..Len(list) |-> json_dumps(list[i])]


\* ---------------------------------------------------------------- state
VARIABLES
  now,         \* the wall clock, datetime.now()
  pc,          \* the collector's position in the main loop
  buffer,      \* the tail buffer (global buffer)
  last_write,  \* global last_write
  dataFile,    \* DATA_FILE: whether it exists, and its lines
  shm,         \* the scratch file: whether it exists, the records of its
               \* array, and whether the array is written to its end
  flushIter,   \* hourly flush: the list object "for e in buffer" iterates
  flushPos,    \* hourly flush: how many of them were written
  fbuf,        \* hourly flush: lines held by the file object until close
  cutoff,      \* cleanup_old_data: cutoff
  cl_lines,    \* cleanup_old_data: the lines read from DATA_FILE
  cl_data,     \* cleanup_old_data: data
  exc,         \* the uncaught exception that ended the collector
  uncleaned,   \* history: a flush wrote to the log and no cleanup ran since
  rpc,         \* read_logs: position
  rdurable,    \* read_logs: the lines f.readlines() returned
  rscratch,    \* read_logs: the scratch document json.load() was given
  \* the web process's render cache (GraphCache, Handler.do_GET)
  wclock,      \* time.time() in the web process
  cache_timestamp,  \* GraphCache.timestamp
  cache_data,  \* GraphCache.cache: key -> image, NoImg for a missing key
  passes,      \* how many times generate_all_graphs has run
  hpc,         \* Handler: "idle", or "resp" with a response written
  req,         \* the request do_GET last served
  render,      \* what generate_graph did for each chart of the last rebuild
  resp,        \* the response do_GET wrote
  \* a call of downsample_data
  ds_pc,       \* "build": the caller assembles the series, "done": returned
  ds_ts,       \* argument timestamps
  ds_vals,     \* argument values
  ds_max,      \* argument max_points
  ds_out,      \* what the call returned
  \* a call of plot_with_gaps
  pg_pc,       \* "build": the caller assembles ts, "done": returned
  pg_ts,       \* argument ts, in seconds
  pg_gaps,     \* the set gaps
  pg_drawn,    \* the slices (s, e) drawn as solid lines, in drawing order
  \* the y-axis limits of the graph objects
  limits,      \* metric -> self.limits[1], in tenths
  yl_pc,       \* "idle", "plotted": graph.plot returned, "drawn": set_limits ran
  yl_render,   \* the render under way or just done
  \* the rate collectors of the main loop
  rt_pc,       \* the collector the loop calls next, or "sleep"
  rt_prev,     \* the collectors' fields: prev_idle and prev_total, prev_stats, prev_io
  rt_seen,     \* per collector, the readings its calls took, oldest first
  rt_out,      \* per collector, what its last call returned
  \* the main loop with its temperature sensor
  tm_pc,       \* "temp", "append", "mirror", "sleep" or "dead"
  tm_sensor,   \* whether /sys/class/thermal/thermal_zone0/temp exists
  tm_temp,     \* cpu_temp of the entry being assembled, in tenths
  tm_buffer,   \* cpu_temp of the entries of buffer
  tm_mirror,   \* cpu_temp of the entries of the scratch file
  tm_failed,   \* how often TempMetric.collect found no sensor
  tm_exc,      \* the exception that ended the process
  \* a render of DiskGraph
  ms_pc,       \* "build": read_logs collects data, "done": plot returned
  ms_data,     \* data: the Samples, each a timestamp and its disk_usage dict
  ms_lines     \* per path, the points (ts, value) handed to plot_with_gaps,
               \* each with the timestamp of the Sample its value is from

collector == <<now, pc, buffer, last_write, flushIter, flushPos, fbuf,
               cutoff, cl_lines, cl_data, exc, uncleaned>>
files == <<dataFile, shm>>
reader == <<rpc, rdurable, rscratch>>
cacheVars == <<wclock, cache_timestamp, cache_data, passes, hpc, req, render,
               resp>>
downVars == <<ds_pc, ds_ts, ds_vals, ds_max, ds_out>>
gapVars == <<pg_pc, pg_ts, pg_gaps, pg_drawn>>
limitVars == <<limits, yl_pc, yl_render>>
rateVars == <<rt_pc, rt_prev, rt_seen, rt_out>>
tempVars ==
  <<tm_pc, tm_sensor, tm_temp, tm_buffer, tm_mirror, tm_failed, tm_exc>>
seriesVars == <<ms_pc, ms_data, ms_lines>>
web ==
  <<cacheVars, downVars, gapVars, limitVars, rateVars, tempVars, seriesVars>>
core == <<collector, files, reader>>
vars == <<core, web>>

\* A log left by an earlier run of the collector: its records are older
\* than this run's start, in the order they were sampled.
OldLog ==
  <<json_dumps([timestamp |-> isoformat(StartTime - 4), cpu_usage |-> 0]),
    json_dumps([timestamp |-> isoformat(StartTime - 1), cpu_usage |-> 50])>>

\* the scratch file right after open(..., 'w'): zero bytes
Truncated == [exists |-> TRUE, items |-> <<>>, closed |-> FALSE]

CoreInit ==
  /\ now = StartTime
  /\ pc = "append"
  /\ buffer = <<>>
  /\ last_write = StartTime
  /\ flushIter = <<>>
  /\ flushPos = 0
  /\ fbuf = <<>>
  /\ cutoff = <<>>
  /\ cl_lines = <<>>
  /\ cl_data = <<>>
  /\ exc = "none"
  /\ uncleaned = FALSE
  /\ rpc = "idle"
  /\ rdurable = NoFile
  /\ rscratch = NoShm

\* --------------------------------------- initial state of the chart helpers
\* no call of downsample_data has been made
NoCall == [raised |-> FALSE, ts |-> <<>>, vals |-> <<>>]

DownInit ==
  /\ ds_pc = "build"
  /\ ds_ts = <<>>
  /\ ds_vals = <<>>
  /\ ds_max = 1
  /\ ds_out = NoCall

\* the helpers of the web service before their first use
\* no call of plot_with_gaps has been made
GapInit ==
  /\ pg_pc = "build"
  /\ pg_ts = <<>>
  /\ pg_gaps = {}
  /\ pg_drawn = <<>>

\* self.limits = config.get('graph_limits', [0, 100]): the ceiling, in tenths
DefaultCeiling == 1000

NoChart ==
  [metric |-> "none", view |-> "none", data_max |-> 0, before |-> 0, ylim |-> 0]

\* the graph objects as constructed at import
LimitsInit ==
  /\ limits = [m \in {"cpu", "disk"} |-> DefaultCeiling]
  /\ yl_pc = "idle"
  /\ yl_render = NoChart

\* a dict without keys
EmptyDict == [k \in {} |-> 0]

\* lines 45-46, 108, 139: the collectors as constructed
RatesInit ==
  /\ rt_pc = "cpu"
  /\ rt_prev = [cpu |-> [idle |-> 0, total |-> 0],
                network |-> EmptyDict, disk_io |-> EmptyDict]
  /\ rt_seen = [cpu |-> <<>>, network |-> <<>>, disk_io |-> <<>>]
  /\ rt_out = [cpu |-> 0, network |-> EmptyDict, disk_io |-> EmptyDict]

\* line 218: the main loop is about to assemble its first entry
TempInit ==
  /\ tm_pc = "temp"
  /\ tm_sensor = TRUE
  /\ tm_temp = 0
  /\ tm_buffer = <<>>
  /\ tm_mirror = <<>>
  /\ tm_failed = 0
  /\ tm_exc = "none"

\* no render of DiskGraph has begun
SeriesInit ==
  /\ ms_pc = "build"
  /\ ms_data = <<>>
  /\ ms_lines = [p \in {} |-> <<>>]

ChartInit ==
  /\ DownInit
  /\ GapInit
  /\ LimitsInit
  /\ RatesInit
  /\ TempInit
  /\ SeriesInit

\* ------------------------------------------------------------ collector
Running == pc # "dead"

\* An exception nothing catches ends the process: the traceback names the
\* exception, and the process's memory (buffer, last_write, locals) is gone.
Die(e) ==
  /\ exc' = e
  /\ pc' = "dead"
  /\ buffer' = <<>>
  /\ last_write' = StartTime
  /\ flushIter' = <<>>
  /\ flushPos' = 0
  /\ fbuf' = <<>>
  /\ cutoff' = <<>>
  /\ cl_lines' = <<>>
  /\ cl_data' = <<>>
  /\ UNCHANGED <<now, uncleaned>>

\* lines 219-229: assemble the entry and append it to the tail buffer
AppendEntry ==
  /\ pc = "append"
  /\ \E v \in Readings :
       buffer' = Append(buffer, [timestamp |-> isoformat(now), cpu_usage |-> v])
  /\ pc' = "shm_open"
  /\ UNCHANGED <<now, last_write, flushIter, flushPos, fbuf, cutoff, cl_lines,
                 cl_data, exc, uncleaned, files, reader>>
  /\ UNCHANGED web

\* line 232: open('/dev/shm/pi_monitor_buffer.json', 'w') truncates the file
ShmOpen ==
  /\ pc = "shm_open"
  /\ shm' = Truncated
  /\ pc' = "shm_dump"
  /\ UNCHANGED <<now, buffer, last_write, flushIter, flushPos, fbuf, cutoff,
                 cl_lines, cl_data, exc, uncleaned, dataFile, reader>>
  /\ UNCHANGED web

\* line 233 and the end of the with block: json.dump(buffer, f), close
ShmDump ==
  /\ pc = "shm_dump"
  /\ shm' = [exists |-> TRUE, items |-> DumpLines(buffer), closed |-> TRUE]
  /\ pc' = "check"
  /\ UNCHANGED <<now, buffer, last_write, flushIter, flushPos, fbuf, cutoff,
                 cl_lines, cl_data, exc, uncleaned, dataFile, reader>>
  /\ UNCHANGED web

\* lines 232-233 raise OSError: nothing catches it, the process ends.
\* Raised by open() the file is untouched, raised later it stays truncated.
ShmIOError ==
  /\ pc \in {"shm_open", "shm_dump"}
  /\ Die("scratch")
  /\ UNCHANGED <<files, reader>>
  /\ UNCHANGED web

\* line 236
HourElapsed == now - last_write >= FLUSH_SECONDS

\* line 236 false: straight to the sleep
SkipFlush ==
  /\ pc = "check"
  /\ ~HourElapsed
  /\ pc' = "sleep"
  /\ UNCHANGED <<now, buffer, last_write, flushIter, flushPos, fbuf, cutoff,
                 cl_lines, cl_data, exc, uncleaned, files, reader>>
  /\ UNCHANGED web

\* lines 236-237: the hour has passed, open(DATA_FILE, 'a') creates the file
FlushOpen ==
  /\ pc = "check"
  /\ HourElapsed
  /\ dataFile' = File(dataFile.lines)
  /\ pc' = "fl_iter"
  /\ UNCHANGED <<now, buffer, last_write, flushIter, flushPos, fbuf, cutoff,
                 cl_lines, cl_data, exc, uncleaned, shm, reader>>
  /\ UNCHANGED web

\* line 238: "for e in buffer" takes the list the global names right now
FlushIter ==
  /\ pc = "fl_iter"
  /\ flushIter' = buffer
  /\ flushPos' = 0
  /\ pc' = "fl_write"
  /\ UNCHANGED <<now, buffer, last_write, fbuf, cutoff, cl_lines, cl_data,
                 exc, uncleaned, files, reader>>
  /\ UNCHANGED web

\* line 239: one iteration of the loop
FlushWrite ==
  /\ pc = "fl_write"
  /\ flushPos < Len(flushIter)
  /\ fbuf' = Append(fbuf, json_dumps(flushIter[flushPos + 1]))
  /\ flushPos' = flushPos + 1
  /\ UNCHANGED <<now, pc, buffer, last_write, flushIter, cutoff, cl_lines,
                 cl_data, exc, uncleaned, files, reader>>
  /\ UNCHANGED web

\* the end of the with block of line 237: the written lines reach the file
FlushClose ==
  /\ pc = "fl_write"
  /\ flushPos = Len(flushIter)
  /\ dataFile' = File(dataFile.lines \o fbuf)
  /\ uncleaned' = (uncleaned \/ fbuf # <<>>)
  /\ fbuf' = <<>>
  /\ flushIter' = <<>>
  /\ flushPos' = 0
  /\ pc' = "fl_clear"
  /\ UNCHANGED <<now, buffer, last_write, cutoff, cl_lines, cl_data, exc,
                 shm, reader>>
  /\ UNCHANGED web

\* lines 240-241
FlushClear ==
  /\ pc = "fl_clear"
  /\ buffer' = <<>>
  /\ last_write' = now
  /\ pc' = "cleanup"
  /\ UNCHANGED <<now, flushIter, flushPos, fbuf, cutoff, cl_lines, cl_data,
                 exc, uncleaned, files, reader>>
  /\ UNCHANGED web

\* lines 237-239 raise OSError: nothing catches it, the process ends.
\* Raised by open() nothing was written; raised while the lines are written
\* out at close, some whole lines may have reached the file.
FlushIOError ==
  /\ \/ /\ pc = "check"
        /\ HourElapsed
        /\ UNCHANGED dataFile
     \/ /\ pc = "fl_write"
        /\ flushPos = Len(flushIter)
        /\ fbuf # <<>>
        /\ \E k \in 0..(Len(fbuf) - 1) :
             dataFile' = File(dataFile.lines \o SubSeq(fbuf, 1, k))
  /\ Die("flush")
  /\ UNCHANGED <<shm, reader>>
  /\ UNCHANGED web

\* line 184: the records cleanup keeps
RECURSIVE CleanupKeepStrict(_, _)
CleanupKeepStrict(lines, c) ==
  IF lines = <<>> THEN <<>>
  ELSE (IF ~StrGE(c, json_loads(Head(lines)).timestamp)
          THEN <<json_loads(Head(lines))>> ELSE <<>>)
       \o CleanupKeepStrict(Tail(lines), c)
CleanupKeepAll(lines, c) == [i \in 1..Len(lines) |-> json_loads(lines[i])]
RECURSIVE CleanupKeep(_, _)
CleanupKeep(lines, c) ==
  IF lines = <<>> THEN <<>>
  ELSE (IF StrGE(json_loads(Head(lines)).timestamp, c)
          THEN <<json_loads(Head(lines))>> ELSE <<>>)
       \o CleanupKeep(Tail(lines), c)

\* line 182
Cutoff(t) == isoformat(t - RETENTION_DAYS)

\* line 184: json.loads accepts every line
AllParse(lines) == \A i \in DOMAIN lines : WellFormed(lines[i])

\* lines 180-184: return when there is no log, else read and filter it
CleanupRead ==
  /\ pc = "cleanup"
  /\ IF ~dataFile.exists
       THEN /\ pc' = "sleep"
            /\ UNCHANGED <<cutoff, cl_lines, cl_data>>
       ELSE /\ AllParse(dataFile.lines)
            /\ cutoff' = Cutoff(now)
            /\ cl_lines' = dataFile.lines
            /\ cl_data' = CleanupKeep(dataFile.lines, Cutoff(now))
            /\ pc' = "cl_open"
  /\ UNCHANGED <<now, buffer, last_write, flushIter, flushPos, fbuf, exc,
                 uncleaned, files, reader>>
  /\ UNCHANGED web

\* line 184: json.loads raises on a line that is no JSON object; nothing
\* catches the ValueError, the process ends with the log as it was
CleanupCrash ==
  /\ pc = "cleanup"
  /\ dataFile.exists
  /\ ~AllParse(dataFile.lines)
  /\ Die("cleanup")
  /\ UNCHANGED <<files, reader>>
  /\ UNCHANGED web

\* line 185: open(DATA_FILE, 'w') truncates the log
CleanupOpen ==
  /\ pc = "cl_open"
  /\ dataFile' = File(<<>>)
  /\ pc' = "cl_write"
  /\ UNCHANGED <<now, buffer, last_write, flushIter, flushPos, fbuf, cutoff,
                 cl_lines, cl_data, exc, uncleaned, shm, reader>>
  /\ UNCHANGED web

\* lines 186-187 and the end of the with block: the kept records are written
CleanupClose ==
  /\ pc = "cl_write"
  /\ dataFile' = File(DumpLines(cl_data))
  /\ uncleaned' = FALSE
  /\ pc' = "cl_ret"
  /\ UNCHANGED <<now, buffer, last_write, flushIter, flushPos, fbuf, cutoff,
                 cl_lines, cl_data, exc, shm, reader>>
  /\ UNCHANGED web

\* cleanup_old_data returns to line 246
CleanupReturn ==
  /\ pc = "cl_ret"
  /\ cutoff' = <<>>
  /\ cl_lines' = <<>>
  /\ cl_data' = <<>>
  /\ pc' = "sleep"
  /\ UNCHANGED <<now, buffer, last_write, flushIter, flushPos, fbuf, exc,
                 uncleaned, files, reader>>
  /\ UNCHANGED web

\* line 246: time.sleep(INTERVAL); the tick's own work takes time as well
Sleep ==
  /\ pc = "sleep"
  /\ \E j \in 0..Jitter :
       /\ now + INTERVAL + j <= MaxTime
       /\ now' = now + INTERVAL + j
  /\ pc' = "append"
  /\ UNCHANGED <<buffer, last_write, flushIter, flushPos, fbuf, cutoff,
                 cl_lines, cl_data, exc, uncleaned, files, reader>>
  /\ UNCHANGED web

\* lines 197-204: SIGUSR1 runs flush_buffer between two steps of the main
\* loop (the handler runs in the main thread, which resumes afterwards).
\* With an empty buffer the handler does nothing.
SigUsr1 ==
  /\ Running
  /\ buffer # <<>>
  /\ dataFile' = File(dataFile.lines \o DumpLines(buffer))
  /\ buffer' = <<>>
  /\ last_write' = now
  /\ uncleaned' = TRUE
  /\ UNCHANGED <<now, pc, flushIter, flushPos, fbuf, cutoff, cl_lines,
                 cl_data, exc, shm, reader>>
  /\ UNCHANGED web

\* lines 200-202 raise OSError inside the handler: the exception surfaces in
\* the main loop, nothing catches it, the process ends.
SigUsr1IOError ==
  /\ Running
  /\ buffer # <<>>
  /\ \/ UNCHANGED dataFile
     \/ \E k \in 0..(Len(buffer) - 1) :
          dataFile' = File(dataFile.lines \o SubSeq(DumpLines(buffer), 1, k))
  /\ Die("flush")
  /\ UNCHANGED <<shm, reader>>
  /\ UNCHANGED web

\* --------------------------------------------------------------- reader
\* lines 40-42: open(DATA_FILE) and f.readlines(); a missing file raises
ReadDurable ==
  /\ rpc = "idle"
  /\ rdurable' = dataFile
  /\ rpc' = "scratch"
  /\ UNCHANGED <<rscratch, collector, files>>
  /\ UNCHANGED web

\* lines 49-51: open the scratch file and hand it to json.load
ReadScratch ==
  /\ rpc = "scratch"
  /\ rscratch' = shm
  /\ rpc' = "done"
  /\ UNCHANGED <<rdurable, collector, files>>
  /\ UNCHANGED web

\* line 69: read_logs returns; the next request starts afresh
ReadReturn ==
  /\ rpc = "done"
  /\ rdurable' = NoFile
  /\ rscratch' = NoShm
  /\ rpc' = "idle"
  /\ UNCHANGED <<collector, files>>
  /\ UNCHANGED web

\* line 38
MAX_LINES_ALL == 1000

\* line 43: all_lines[-max_lines:]
LastLines(lines, n) ==
  SubSeq(lines, IF Len(lines) > n THEN Len(lines) - n + 1 ELSE 1, Len(lines))

\* lines 43-47: parse line after line; the first line json.loads rejects
\* ends the loop (except: pass) with the records parsed so far
ParseUntilError(lines) ==
  LET bad == {i \in DOMAIN lines : ~WellFormed(lines[i])}
      stop == IF bad = {} THEN Len(lines) + 1
              ELSE CHOOSE i \in bad : \A j \in bad : i <= j
  IN [i \in 1..(stop - 1) |-> json_loads(lines[i])]

DurableRecords(file) == ParseUntilError(LastLines(file.lines, MAX_LINES_ALL))

\* lines 49-53: json.load raises on a missing file and on a document that
\* is not a whole array (except: pass), else its records are appended
ScratchRecords(doc) ==
  IF ~doc.exists \/ ~doc.closed THEN <<>>
  ELSE [i \in 1..Len(doc.items) |-> json_loads(doc.items[i])]

\* lines 37-53, 69: what read_logs(hours=None) returns
read_logs == DurableRecords(rdurable) \o ScratchRecords(rscratch)

\* ---------------------------------------------------------- render cache
ClockStart == 3      \* time.time() when the web process starts
MaxClock == 6        \* the web process is followed up to this time
MaxPasses == 3       \* and for this many rebuilds

\* lines 306-313: the charts of graphs (two of the six), in dict order
Metrics == <<"cpu", "disk">>
\* line 319
Views == <<"hour", "all">>

\* lines 319-324: the cache keys f"{view}/{metric}", in the order of the loops
KeySeq ==
  [i \in 1..(Len(Views) * Len(Metrics)) |->
     <<Views[((i - 1) \div Len(Metrics)) + 1],
       Metrics[((i - 1) % Len(Metrics)) + 1]>>]
Keys == {KeySeq[i] : i \in DOMAIN KeySeq}

\* a path /{view}/{metric} whose metric is not in graphs
UnknownKey == <<"all", "nosuch">>

\* None, where an image is expected
NoImg == [pass |-> 0, mobile |-> FALSE]
\* the PNG bytes generate_graph returns: they depend on the data read during
\* the pass that rendered them and on the layout (figsize)
Image(p, m) == [pass |-> p, mobile |-> m]

\* what a call of generate_graph comes to: a PNG, no data (line 333), or an
\* exception inside its try block (lines 404-408)
Outcomes == {"png", "nodata", "error"}

\* lines 294-295
is_expired_strict(t, ts) == t - ts >= INTERVAL
is_expired(t, ts) == t - ts > INTERVAL

\* lines 297-300
CacheGet(key) ==
  IF is_expired(wclock, cache_timestamp) THEN NoImg ELSE cache_data[key]

\* lines 329-408: both the "no data" return and the except clause give None
generate_graph(outcome, p, m) ==
  IF outcome = "png" THEN Image(p, m) ELSE NoImg

\* lines 317-325, with a loop that an exception of one chart ends
RECURSIVE generate_all_aborting(_, _, _, _, _)
generate_all_aborting(keys, outcome, p, m, result) ==
  IF keys = <<>> \/ outcome[Head(keys)] = "error" THEN result
  ELSE generate_all_aborting(Tail(keys), outcome, p, m,
         [result EXCEPT ![Head(keys)] = generate_graph(outcome[Head(keys)], p, m)])

\* lines 317-325: result[key] is set for every chart whose img is not None
RECURSIVE generate_all_graphs(_, _, _, _, _)
generate_all_graphs(keys, outcome, p, m, result) ==
  IF keys = <<>> THEN result
  ELSE generate_all_graphs(Tail(keys), outcome, p, m,
         IF generate_graph(outcome[Head(keys)], p, m) # NoImg
           THEN [result EXCEPT ![Head(keys)] = generate_graph(outcome[Head(keys)], p, m)]
           ELSE result)

\* an empty dict
EmptyCache == [k \in Keys |-> NoImg]

\* lines 302-303
set_all_merging(old, data) ==
  [k \in Keys |-> IF data[k] # NoImg THEN data[k] ELSE old[k]]
set_all(old, data) == data

NoReq == [key |-> UnknownKey, mobile |-> FALSE]
NoResp == [status |-> 0, img |-> NoImg, hit |-> FALSE, age |-> 0]
NoRender == [k \in Keys |-> "nodata"]

CacheInit ==
  /\ wclock = ClockStart
  /\ cache_timestamp = 0
  /\ cache_data = EmptyCache
  /\ passes = 0
  /\ hpc = "idle"
  /\ req = NoReq
  /\ render = NoRender
  /\ resp = NoResp

\* time passes in the web process
WebTick ==
  /\ hpc = "idle"
  /\ wclock < MaxClock
  /\ wclock' = wclock + 1
  /\ UNCHANGED <<cache_timestamp, cache_data, passes, hpc, req, render, resp>>
  /\ UNCHANGED <<core, downVars, gapVars, limitVars, rateVars, tempVars, seriesVars>>

\* lines 461-490, metric not in graphs: 404
DoGetUnknown ==
  /\ hpc = "idle"
  /\ \E m \in BOOLEAN : req' = [key |-> UnknownKey, mobile |-> m]
  /\ resp' = [status |-> 404, img |-> NoImg, hit |-> FALSE,
              age |-> wclock - cache_timestamp]
  /\ hpc' = "resp"
  /\ UNCHANGED <<wclock, cache_timestamp, cache_data, passes, render>>
  /\ UNCHANGED <<core, downVars, gapVars, limitVars, rateVars, tempVars, seriesVars>>

\* lines 461-483, the cache has the image: it is served
DoGetHit ==
  /\ hpc = "idle"
  /\ \E k \in Keys, m \in BOOLEAN :
       /\ CacheGet(k) # NoImg
       /\ req' = [key |-> k, mobile |-> m]
       /\ resp' = [status |-> 200, img |-> CacheGet(k), hit |-> TRUE,
                   age |-> wclock - cache_timestamp]
  /\ hpc' = "resp"
  /\ UNCHANGED <<wclock, cache_timestamp, cache_data, passes, render>>
  /\ UNCHANGED <<core, downVars, gapVars, limitVars, rateVars, tempVars, seriesVars>>

\* lines 461-487, cache.get gave None: every chart is rendered, the cache
\* is replaced (the rebuild takes d time units), the image of the key is
\* served if the rebuild has one
DoGetRebuild ==
  /\ hpc = "idle"
  /\ passes < MaxPasses
  /\ \E k \in Keys, m \in BOOLEAN, outcome \in [Keys -> Outcomes], d \in 0..1 :
       /\ CacheGet(k) = NoImg
       /\ wclock + d <= MaxClock
       /\ LET all_graphs ==
                generate_all_graphs(KeySeq, outcome, passes + 1, m, EmptyCache)
          IN /\ cache_data' = set_all(cache_data, all_graphs)
             /\ resp' = [status |-> IF all_graphs[k] # NoImg THEN 200 ELSE 404,
                         img |-> all_graphs[k], hit |-> FALSE,
                         age |-> wclock - cache_timestamp]
       /\ req' = [key |-> k, mobile |-> m]
       /\ render' = outcome
       /\ wclock' = wclock + d
       /\ cache_timestamp' = wclock + d
  /\ passes' = passes + 1
  /\ hpc' = "resp"
  /\ UNCHANGED <<core, downVars, gapVars, limitVars, rateVars, tempVars, seriesVars>>

\* the response is sent, the handler returns
DoGetReturn ==
  /\ hpc = "resp"
  /\ hpc' = "idle"
  /\ req' = NoReq
  /\ resp' = NoResp
  /\ render' = NoRender
  /\ UNCHANGED <<wclock, cache_timestamp, cache_data, passes>>
  /\ UNCHANGED <<core, downVars, gapVars, limitVars, rateVars, tempVars, seriesVars>>

\* the web process alone
CoreIdle ==
  /\ CoreInit
  /\ dataFile = NoFile
  /\ shm = NoShm

NextCache ==
  \/ WebTick \/ DoGetUnknown \/ DoGetHit \/ DoGetRebuild \/ DoGetReturn

InitCache ==
  /\ CoreIdle
  /\ CacheInit
  /\ ChartInit

SpecCache == InitCache /\ [][NextCache]_vars

\* ------------------------------------------------------------ downsample
MaxSeries == 5       \* series of up to this many points
MaxPoints == 3       \* max_points from 1 up to this

\* a float, kept exact: n / d in lowest terms
RECURSIVE Gcd(_, _)
Gcd(a, b) == IF b = 0 THEN a ELSE Gcd(b, a % b)
Frac(n, d) == [n |-> n \div Gcd(n, d), d |-> d \div Gcd(n, d)]

\* sum(chunk_vals) of values that are whole numbers
RECURSIVE SumN(_)
SumN(vs) == IF vs = <<>> THEN 0 ELSE Head(vs).n + SumN(Tail(vs))

\* line 85: sum(chunk_vals) / len(chunk_vals)
Mean(vs) == Frac(SumN(vs), Len(vs))

\* Python's seq[a:b], a and b counted from 0
Slice(seq, a, b) ==
  SubSeq(seq, a + 1, IF b > Len(seq) THEN Len(seq) ELSE b)

\* a call that returned these two lists
Returned(ts, vals) == [raised |-> FALSE, ts |-> ts, vals |-> vals]
\* a call that ended in an exception
Raised == [raised |-> TRUE, ts |-> <<>>, vals |-> <<>>]

\* lines 76-87: the chunks start at 0, chunk_size, 2 * chunk_size, ... below
\* len(timestamps); each gives its middle timestamp and the mean of its values
Chunked(ts, vals, chunk_size) ==
  LET n == (Len(ts) + chunk_size - 1) \div chunk_size
      start(c) == (c - 1) * chunk_size
      chunk_ts(c) == Slice(ts, start(c), start(c) + chunk_size)
      chunk_vals(c) == Slice(vals, start(c), start(c) + chunk_size)
  IN Returned([c \in 1..n |-> chunk_ts(c)[(Len(chunk_ts(c)) \div 2) + 1]],
              [c \in 1..n |-> Mean(chunk_vals(c))])

\* lines 72-87 without the test of line 73: range() refuses a step of 0
downsample_unguarded(ts, vals, max_points) ==
  IF Len(ts) \div max_points = 0 THEN Raised
  ELSE Chunked(ts, vals, Len(ts) \div max_points)

\* lines 72-87
downsample_data(ts, vals, max_points) ==
  IF Len(ts) <= max_points THEN Returned(ts, vals)
  ELSE Chunked(ts, vals, Len(ts) \div max_points)

\* lines 180, 332: the caller's lists grow by one Sample
DsAddPoint ==
  /\ ds_pc = "build"
  /\ Len(ds_ts) < MaxSeries
  /\ ds_ts' = Append(ds_ts, StartTime + INTERVAL * Len(ds_ts))
  /\ \E v \in Readings : ds_vals' = Append(ds_vals, Frac(v, 1))
  /\ UNCHANGED <<ds_pc, ds_max, ds_out>>
  /\ UNCHANGED <<core, cacheVars, gapVars, limitVars, rateVars, tempVars, seriesVars>>

\* line 182: timestamps, values = downsample_data(timestamps, values)
DsCall ==
  /\ ds_pc = "build"
  /\ \E m \in 1..MaxPoints :
       /\ ds_max' = m
       /\ ds_out' = downsample_data(ds_ts, ds_vals, m)
  /\ ds_pc' = "done"
  /\ UNCHANGED <<ds_ts, ds_vals>>
  /\ UNCHANGED <<core, cacheVars, gapVars, limitVars, rateVars, tempVars, seriesVars>>

\* the chart is drawn; the next render builds its lists anew
DsReturn ==
  /\ ds_pc = "done"
  /\ ds_pc' = "build"
  /\ ds_ts' = <<>>
  /\ ds_vals' = <<>>
  /\ ds_max' = 1
  /\ ds_out' = NoCall
  /\ UNCHANGED <<core, cacheVars, gapVars, limitVars, rateVars, tempVars, seriesVars>>

NextDown == DsAddPoint \/ DsCall \/ DsReturn

InitDown ==
  /\ CoreIdle
  /\ CacheInit
  /\ ChartInit

SpecDown == InitDown /\ [][NextDown]_vars

\* --------------------------------------------------------- plot_with_gaps
MaxGapPoints == 7    \* series of up to this many points
\* seconds from one point to the next: a stale scratch file repeats records
\* of the durable log, so a step can also be 0 or go back
Deltas == {-120, 0, 60, 300, 600}

\* list.sort(): ascending, by insertion
RECURSIVE Insert(_, _)
Insert(x, sorted) ==
  IF sorted = <<>> THEN <<x>>
  ELSE IF x <= Head(sorted) THEN <<x>> \o sorted
  ELSE <<Head(sorted)>> \o Insert(x, Tail(sorted))

RECURSIVE Sort(_)
Sort(seq) == IF seq = <<>> THEN <<>> ELSE Insert(Head(seq), Sort(Tail(seq)))

\* line 100: intervals[k] is ts[k] - ts[k-1] of the code's 0-based ts
Intervals(ts) == [k \in 1..(Len(ts) - 1) |-> ts[k + 1] - ts[k]]

\* line 102 without the sort of line 101
median_unsorted(intervals) == intervals[(Len(intervals) \div 2) + 1]

\* lines 101-102: intervals.sort(); intervals[len(intervals) // 2]
median_interval(intervals) == Sort(intervals)[(Len(intervals) \div 2) + 1]

\* line 103: max(median_interval * 3, 300)
gap_threshold(ts) ==
  LET m == median_interval(Intervals(ts))
  IN IF m * 3 > 300 THEN m * 3 ELSE 300

\* lines 105-109, with the code's 0-based indices
Gaps(ts) ==
  {i \in 1..(Len(ts) - 1) : ts[i + 1] - ts[i + 1 - 1] > gap_threshold(ts)}

\* sorted(gaps)
RECURSIVE SortedSet(_)
SortedSet(S) ==
  IF S = {} THEN <<>>
  ELSE LET least == CHOOSE x \in S : \A y \in S : x <= y
       IN <<least>> \o SortedSet(S \ {least})

\* lines 120-124: the loop over sorted(gaps)
RECURSIVE SegmentLoop(_, _, _)
SegmentLoop(gapSeq, start, segments) ==
  IF gapSeq = <<>> THEN [start |-> start, segments |-> segments]
  ELSE SegmentLoop(Tail(gapSeq), Head(gapSeq),
                   IF Head(gapSeq) > start
                     THEN Append(segments, <<start, Head(gapSeq)>>)
                     ELSE segments)

\* lines 119-126
Segments(gaps, n) ==
  LET l == SegmentLoop(SortedSet(gaps), 0, <<>>)
  IN IF l.start < n THEN Append(l.segments, <<l.start, n>>) ELSE l.segments

\* lines 92-98, 114-117, 128-136: the slices of ts drawn as solid lines
Drawn(ts) ==
  IF Len(ts) < 2 THEN <<<<0, Len(ts)>>>>
  ELSE IF Gaps(ts) = {} THEN <<<<0, Len(ts)>>>>
  ELSE Segments(Gaps(ts), Len(ts))

\* line 332: one more record's timestamp
PgAddPoint ==
  /\ pg_pc = "build"
  /\ Len(pg_ts) < MaxGapPoints
  /\ \E d \in Deltas :
       pg_ts' = Append(pg_ts, IF pg_ts = <<>> THEN 0
                              ELSE pg_ts[Len(pg_ts)] + d)
  /\ UNCHANGED <<pg_pc, pg_gaps, pg_drawn>>
  /\ UNCHANGED <<core, cacheVars, downVars, limitVars, rateVars, tempVars, seriesVars>>

\* line 184: plot_with_gaps(ax, timestamps, values, ...)
PgPlot ==
  /\ pg_pc = "build"
  /\ pg_gaps' = (IF Len(pg_ts) < 2 THEN {} ELSE Gaps(pg_ts))
  /\ pg_drawn' = Drawn(pg_ts)
  /\ pg_pc' = "done"
  /\ UNCHANGED pg_ts
  /\ UNCHANGED <<core, cacheVars, downVars, limitVars, rateVars, tempVars, seriesVars>>

\* the chart is drawn; the next render builds its list anew
PgReturn ==
  /\ pg_pc = "done"
  /\ pg_pc' = "build"
  /\ pg_ts' = <<>>
  /\ pg_gaps' = {}
  /\ pg_drawn' = <<>>
  /\ UNCHANGED <<core, cacheVars, downVars, limitVars, rateVars, tempVars, seriesVars>>

NextGaps == PgAddPoint \/ PgPlot \/ PgReturn

InitGaps ==
  /\ CoreIdle
  /\ CacheInit
  /\ ChartInit

SpecGaps == InitGaps /\ [][NextGaps]_vars

\* ------------------------------------------------------------ y-axis limits
\* the largest value a render can find in its data
DataMax == {0, 50, 100, 101, 150, 200}

\* validate_limits that starts from the configured ceiling at every render
validate_limits_fresh(limit, data_max) ==
  IF data_max * 10 > DefaultCeiling THEN data_max * 11 ELSE DefaultCeiling

\* lines 165-167: self.limits[1] after validate_limits(data_max); limit is
\* in tenths, so data_max * 1.1 is data_max * 11
validate_limits(limit, data_max) ==
  IF data_max * 10 > limit THEN data_max * 11 ELSE limit

\* lines 369, 183: graph.plot calls self.validate_limits(max(values))
YlPlot ==
  /\ yl_pc \in {"idle", "drawn"}
  /\ \E m \in DOMAIN limits, v \in {"hour", "all"}, d \in DataMax :
       /\ limits' = [limits EXCEPT ![m] = validate_limits(limits[m], d)]
       /\ yl_render' = [metric |-> m, view |-> v, data_max |-> d,
                        before |-> limits[m], ylim |-> 0]
  /\ yl_pc' = "plotted"
  /\ UNCHANGED <<core, cacheVars, downVars, gapVars, rateVars, tempVars, seriesVars>>

\* lines 370, 169-170: graph.set_limits(ax) is ax.set_ylim(*self.limits)
YlSetLimits ==
  /\ yl_pc = "plotted"
  /\ yl_render' = [yl_render EXCEPT !.ylim = limits[yl_render.metric]]
  /\ yl_pc' = "drawn"
  /\ UNCHANGED limits
  /\ UNCHANGED <<core, cacheVars, downVars, gapVars, rateVars, tempVars, seriesVars>>

NextLimits == YlPlot \/ YlSetLimits

InitLimits ==
  /\ CoreIdle
  /\ CacheInit
  /\ ChartInit

SpecLimits == InitLimits /\ [][NextLimits]_vars

\* --------------------------------------------------------- rate collectors
MaxRounds == 2       \* passes of the main loop

\* /proc/stat at the first reading, and how far idle and total move on
\* between two readings
FirstStat == [idle |-> 100, total |-> 200]
StatSteps == {<<50, 100>>, <<1, 3>>, <<3, 16>>, <<0, 0>>}

\* /proc/net/dev: the interfaces a reading finds, a counter's first value
\* and how far rx moves on between two readings (tx twice as far)
IfaceSets == {{}, {"eth0"}, {"eth0", "wlan0"}}
FirstBytes == 1000
ByteSteps == {0, 120}

\* /proc/diskstats: the configured device and how far its counts move on
Devices == {"sda"}
CountSteps == {0, 5}

\* round(x, 1) of x = n / (10 * d), in tenths: to the nearest, a tie to even
RoundTenths(n, d) ==
  LET q == n \div d
      r == n % d
  IN IF 2 * r < d THEN q
     ELSE IF 2 * r > d THEN q + 1
     ELSE IF q % 2 = 0 THEN q ELSE q + 1

\* lines 58-65: the branch after the first call
CpuDelta(prev, stat) ==
  LET idle_delta == stat.idle - prev.idle
      total_delta == stat.total - prev.total
  IN IF total_delta = 0 THEN 0
     ELSE RoundTenths(1000 * (total_delta - idle_delta), total_delta)

\* CPUMetric.collect without the test of line 54
cpu_collect_unguarded(prev, stat) ==
  [ret |-> CpuDelta(prev, stat), prev |-> stat]

\* lines 48-65: the value returned, in tenths, and the fields afterwards
cpu_collect(prev, stat) ==
  IF prev.total = 0 THEN [ret |-> 0, prev |-> stat]
  ELSE [ret |-> CpuDelta(prev, stat), prev |-> stat]

\* lines 110-132
network_collect(prev_stats, current) ==
  LET stats ==
        IF DOMAIN prev_stats # {}
          THEN [i \in DOMAIN current \cap DOMAIN prev_stats |->
                  [rx_speed |-> Frac(current[i].rx - prev_stats[i].rx, INTERVAL),
                   tx_speed |-> Frac(current[i].tx - prev_stats[i].tx, INTERVAL)]]
        ELSE EmptyDict
  IN [ret |-> IF DOMAIN stats # {} THEN stats
              ELSE [i \in DOMAIN current |->
                      [rx_speed |-> Frac(0, 1), tx_speed |-> Frac(0, 1)]],
      prev |-> current]

\* lines 141-165
disk_io_collect(prev_io, current) ==
  LET io_stats ==
        IF DOMAIN prev_io # {}
          THEN [d \in DOMAIN current \cap DOMAIN prev_io |->
                  [read_count |-> current[d].read_count - prev_io[d].read_count,
                   write_count |-> current[d].write_count - prev_io[d].write_count]]
        ELSE EmptyDict
  IN [ret |-> IF DOMAIN io_stats # {} THEN io_stats
              ELSE [d \in DOMAIN current |-> [read_count |-> 0, write_count |-> 0]],
      prev |-> current]

\* the reading before this one, if there was one
LastSeen(c) == rt_seen[c][Len(rt_seen[c])]

\* lines 49-52: what /proc/stat can say at this call
StatReadings ==
  IF rt_seen.cpu = <<>> THEN {FirstStat}
  ELSE {[idle |-> LastSeen("cpu").idle + st[1],
         total |-> LastSeen("cpu").total + st[2]] : st \in StatSteps}

\* the counters of interface i after they moved on by b
BytesAfter(i, b) ==
  LET last == IF rt_seen.network # <<>> /\ i \in DOMAIN LastSeen("network")
                THEN LastSeen("network")[i]
              ELSE [rx |-> FirstBytes, tx |-> 2 * FirstBytes]
  IN [rx |-> last.rx + b, tx |-> last.tx + 2 * b]

\* lines 114-120: what /proc/net/dev can say at this call
NetReadings ==
  {[i \in S |-> BytesAfter(i, b)] : S \in IfaceSets, b \in ByteSteps}

\* lines 145-153: what /proc/diskstats can say at this call
DiskReadings ==
  IF rt_seen.disk_io = <<>>
    THEN {[d \in Devices |-> [read_count |-> 10, write_count |-> 20]]}
  ELSE {[d \in Devices |->
           [read_count |-> LastSeen("disk_io")[d].read_count + n,
            write_count |-> LastSeen("disk_io")[d].write_count + 2 * n]]
          : n \in CountSteps}

\* line 221: metrics['cpu'].collect()
CollectCpu ==
  /\ rt_pc = "cpu"
  /\ \E stat \in StatReadings :
       LET c == cpu_collect(rt_prev.cpu, stat)
       IN /\ rt_out' = [rt_out EXCEPT !.cpu = c.ret]
          /\ rt_prev' = [rt_prev EXCEPT !.cpu = c.prev]
          /\ rt_seen' = [rt_seen EXCEPT !.cpu = Append(@, stat)]
  /\ rt_pc' = "network"
  /\ UNCHANGED <<core, cacheVars, downVars, gapVars, limitVars, tempVars, seriesVars>>

\* line 224: metrics['network'].collect()
CollectNetwork ==
  /\ rt_pc = "network"
  /\ \E current \in NetReadings :
       LET c == network_collect(rt_prev.network, current)
       IN /\ rt_out' = [rt_out EXCEPT !.network = c.ret]
          /\ rt_prev' = [rt_prev EXCEPT !.network = c.prev]
          /\ rt_seen' = [rt_seen EXCEPT !.network = Append(@, current)]
  /\ rt_pc' = "disk_io"
  /\ UNCHANGED <<core, cacheVars, downVars, gapVars, limitVars, tempVars, seriesVars>>

\* line 226: metrics['disk_io'].collect()
CollectDiskIO ==
  /\ rt_pc = "disk_io"
  /\ \E current \in DiskReadings :
       LET c == disk_io_collect(rt_prev.disk_io, current)
       IN /\ rt_out' = [rt_out EXCEPT !.disk_io = c.ret]
          /\ rt_prev' = [rt_prev EXCEPT !.disk_io = c.prev]
          /\ rt_seen' = [rt_seen EXCEPT !.disk_io = Append(@, current)]
  /\ rt_pc' = "sleep"
  /\ UNCHANGED <<core, cacheVars, downVars, gapVars, limitVars, tempVars, seriesVars>>

\* lines 246, 218: time.sleep(INTERVAL), then the next pass
RateSleep ==
  /\ rt_pc = "sleep"
  /\ Len(rt_seen.disk_io) < MaxRounds
  /\ rt_pc' = "cpu"
  /\ UNCHANGED <<rt_prev, rt_seen, rt_out>>
  /\ UNCHANGED <<core, cacheVars, downVars, gapVars, limitVars, tempVars, seriesVars>>

NextRates == CollectCpu \/ CollectNetwork \/ CollectDiskIO \/ RateSleep

InitRates ==
  /\ CoreIdle
  /\ CacheInit
  /\ ChartInit

SpecRates == InitRates /\ [][NextRates]_vars

\* ------------------------------------------------------ temperature sensor
MaxEntries == 4      \* passes of the main loop
Temps == {400, 415}  \* what the sensor can read, in tenths of a degree

\* line 222: metrics['temp'].collect() with the sensor file in place
TempCollect ==
  /\ tm_pc = "temp"
  /\ tm_sensor
  /\ \E t \in Temps : tm_temp' = t
  /\ tm_pc' = "append"
  /\ UNCHANGED <<tm_sensor, tm_buffer, tm_mirror, tm_failed, tm_exc>>
  /\ UNCHANGED <<core, cacheVars, downVars, gapVars, limitVars, rateVars, seriesVars>>

\* lines 70, 222: open() of the missing sensor file raises FileNotFoundError;
\* neither collect nor the main loop catches it, and the process ends
TempCollectFails ==
  /\ tm_pc = "temp"
  /\ ~tm_sensor
  /\ tm_failed' = tm_failed + 1
  /\ tm_exc' = "FileNotFoundError"
  /\ tm_pc' = "dead"
  /\ tm_temp' = 0
  /\ tm_buffer' = <<>>
  /\ UNCHANGED <<tm_sensor, tm_mirror>>
  /\ UNCHANGED <<core, cacheVars, downVars, gapVars, limitVars, rateVars, seriesVars>>

\* line 229: buffer.append(entry)
TempAppend ==
  /\ tm_pc = "append"
  /\ tm_buffer' = Append(tm_buffer, tm_temp)
  /\ tm_pc' = "mirror"
  /\ UNCHANGED <<tm_sensor, tm_temp, tm_mirror, tm_failed, tm_exc>>
  /\ UNCHANGED <<core, cacheVars, downVars, gapVars, limitVars, rateVars, seriesVars>>

\* lines 232-233: json.dump(buffer, f) into the scratch file
TempMirror ==
  /\ tm_pc = "mirror"
  /\ tm_mirror' = tm_buffer
  /\ tm_pc' = "sleep"
  /\ UNCHANGED <<tm_sensor, tm_temp, tm_buffer, tm_failed, tm_exc>>
  /\ UNCHANGED <<core, cacheVars, downVars, gapVars, limitVars, rateVars, seriesVars>>

\* lines 246, 218: time.sleep(INTERVAL), then the next pass
TempSleep ==
  /\ tm_pc = "sleep"
  /\ Len(tm_buffer) < MaxEntries
  /\ tm_pc' = "temp"
  /\ UNCHANGED <<tm_sensor, tm_temp, tm_buffer, tm_mirror, tm_failed, tm_exc>>
  /\ UNCHANGED <<core, cacheVars, downVars, gapVars, limitVars, rateVars, seriesVars>>

\* the thermal zone goes away while the collector runs
SensorLost ==
  /\ tm_sensor
  /\ tm_pc # "dead"
  /\ tm_sensor' = FALSE
  /\ UNCHANGED <<tm_pc, tm_temp, tm_buffer, tm_mirror, tm_failed, tm_exc>>
  /\ UNCHANGED <<core, cacheVars, downVars, gapVars, limitVars, rateVars, seriesVars>>

NextTemp ==
  \/ TempCollect
  \/ TempCollectFails
  \/ TempAppend
  \/ TempMirror
  \/ TempSleep
  \/ SensorLost

InitTemp ==
  /\ CoreIdle
  /\ CacheInit
  /\ ChartInit

SpecTemp == InitTemp /\ [][NextTemp]_vars

\* ------------------------------------------------------ multi-series charts
MaxSamples == 3      \* Samples in the window

\* the configured disk paths, and what a Sample holds for one of them:
\* Unavailable stands for None (lines 99-100 of the collector)
Paths == {"/", "/data"}
Unavailable == -1
Usages == {Unavailable, 40, 70}

\* lines 223-227: disk_data[path], the usages that are not None, in the
\* order of data; from is the timestamp of the Sample a usage is taken from
RECURSIVE DiskValues(_, _)
DiskValues(data, path) ==
  IF data = <<>> THEN <<>>
  ELSE (IF path \in DOMAIN Head(data).disk_usage
           /\ Head(data).disk_usage[path] # Unavailable
          THEN <<[value |-> Head(data).disk_usage[path],
                  from |-> Head(data).timestamp]>>
          ELSE <<>>)
       \o DiskValues(Tail(data), path)

\* the paths that have a list in disk_data
DiskKeys(data) ==
  {p \in Paths : DiskValues(data, p) # <<>>}

\* lines 232-235: ts = timestamps[:len(values)], then the line of the path
DiskLine(data, path) ==
  LET values == DiskValues(data, path)
      timestamps == [i \in DOMAIN data |-> data[i].timestamp]
      ts == SubSeq(timestamps, 1, Len(values))
  IN [i \in 1..Len(values) |->
        [ts |-> ts[i], value |-> values[i].value, from |-> values[i].from]]

\* lines 47, 332: one more Sample in data
MsAddSample ==
  /\ ms_pc = "build"
  /\ Len(ms_data) < MaxSamples
  /\ \E u \in [Paths -> Usages] :
       ms_data' = Append(ms_data,
                         [timestamp |-> StartTime + INTERVAL * Len(ms_data),
                          disk_usage |-> u])
  /\ UNCHANGED <<ms_pc, ms_lines>>
  /\ UNCHANGED <<core, cacheVars, downVars, gapVars, limitVars, rateVars, tempVars>>

\* lines 221-236: DiskGraph.plot for the hour window
MsPlot ==
  /\ ms_pc = "build"
  /\ ms_lines' = [p \in DiskKeys(ms_data) |-> DiskLine(ms_data, p)]
  /\ ms_pc' = "done"
  /\ UNCHANGED ms_data
  /\ UNCHANGED <<core, cacheVars, downVars, gapVars, limitVars, rateVars, tempVars>>

\* the chart is drawn; the next render reads its data anew
MsReturn ==
  /\ ms_pc = "done"
  /\ ms_pc' = "build"
  /\ ms_data' = <<>>
  /\ ms_lines' = [p \in {} |-> <<>>]
  /\ UNCHANGED <<core, cacheVars, downVars, gapVars, limitVars, rateVars, tempVars>>

NextSeries == MsAddSample \/ MsPlot \/ MsReturn

InitSeries ==
  /\ CoreIdle
  /\ CacheInit
  /\ ChartInit

SpecSeries == InitSeries /\ [][NextSeries]_vars

\* ------------------------------------------------------- specification
Init ==
  /\ CoreInit
  /\ dataFile \in {NoFile, File(OldLog)}
  /\ shm = NoShm
  /\ CacheInit
  /\ ChartInit

Next ==
  \/ AppendEntry \/ ShmOpen \/ ShmDump \/ ShmIOError
  \/ SkipFlush \/ FlushOpen \/ FlushIter \/ FlushWrite \/ FlushClose
  \/ FlushClear \/ FlushIOError
  \/ CleanupRead \/ CleanupOpen \/ CleanupClose \/ CleanupReturn
  \/ Sleep \/ SigUsr1 \/ SigUsr1IOError
  \/ ReadDurable \/ ReadScratch \/ ReadReturn

Spec == Init /\ [][Next]_vars

\* A log in which an earlier run's flush was cut off inside a line: the rest
\* of that line is missing, and a later flush has appended after it.
CorruptLog ==
  <<OldLog[1], <<isoformat(StartTime - 2)>>, OldLog[2]>>

InitCorrupt ==
  /\ CoreInit
  /\ dataFile = File(CorruptLog)
  /\ shm = NoShm
  /\ CacheInit
  /\ ChartInit

\* the collector and the reader over such a log: cleanup_old_data never gets
\* past its json.loads
NextCorrupt ==
  \/ AppendEntry \/ ShmOpen \/ ShmDump \/ ShmIOError
  \/ SkipFlush \/ FlushOpen \/ FlushIter \/ FlushWrite \/ FlushClose
  \/ FlushClear \/ FlushIOError
  \/ CleanupCrash
  \/ Sleep \/ SigUsr1 \/ SigUsr1IOError
  \/ ReadDurable \/ ReadScratch \/ ReadReturn

SpecCorrupt == InitCorrupt /\ [][NextCorrupt]_vars

\* ------------------------------------------------- read_logs on long logs
LenSlack == 2        \* log lengths this far around max_lines are read

\* the i-th record of a log sampled every INTERVAL
LongLine(i) ==
  json_dumps([timestamp |-> isoformat(INTERVAL * i), cpu_usage |-> 50])
LongLog(n) == [i \in 1..n |-> LongLine(i)]

\* durable logs: short ones, and ones about max_lines long
LogLengths ==
  (0..LenSlack) \cup ((MAX_LINES_ALL - LenSlack)..(MAX_LINES_ALL + LenSlack))

\* scratch files: missing, being rewritten, or an array of the k Samples
\* that follow the n of the log
ScratchAfter(n, k) ==
  [exists |-> TRUE, items |-> [i \in 1..k |-> LongLine(n + i)],
   closed |-> TRUE]

InitRead ==
  /\ CoreInit
  /\ \E n \in LogLengths :
       /\ dataFile = File(LongLog(n))
       /\ shm \in {NoShm, Truncated} \cup {ScratchAfter(n, k) : k \in 0..LenSlack}
  /\ CacheInit
  /\ ChartInit

\* read_logs alone, the files as they are
NextRead == ReadDurable \/ ReadScratch \/ ReadReturn

SpecRead == InitRead /\ [][NextRead]_vars

\* ------------------------------------------------ read_logs, the last hour
\* line 38: max_lines of read_logs(hours=1)
MAX_LINES_HOUR == 100

\* line 57: timedelta(hours=1), and a minute, in half seconds
HOUR == 7200
MINUTE == 120

\* line 56: datetime.now() of the request
HourNow == 9000

\* the instants at which the collector took the Samples the files can hold:
\* just before the cutoff, at it, half a minute later (after a restart of
\* the collector within the minute), a minute later, and a recent one
SampleTimes == {HourNow - HOUR - 2, HourNow - HOUR, HourNow - HOUR + 60,
                HourNow - HOUR + MINUTE, HourNow - 20}

\* the Samples of these instants, oldest first
SamplesAt(T) ==
  LET sorted == SortedSet(T)
  IN [i \in 1..Len(sorted) |->
        json_dumps([timestamp |-> isoformat(sorted[i]), cpu_usage |-> 50])]

\* lines 56-58: the records at or after the cutoff
Filtered(data, tnow) ==
  SelectSeq(data, LAMBDA d : fromisoformat(d.timestamp) >= tnow - HOUR)

\* line 63: ts.replace(second=0, microsecond=0)
MinuteKey(d) ==
  fromisoformat(d.timestamp) - (fromisoformat(d.timestamp) % MINUTE)

\* lines 60-67: the first record of every minute, in the order of the minutes
FirstPerMinute(filtered) ==
  LET keys == SortedSet({MinuteKey(filtered[i]) : i \in DOMAIN filtered})
      first(k) == CHOOSE i \in DOMAIN filtered :
                    /\ MinuteKey(filtered[i]) = k
                    /\ \A j \in DOMAIN filtered :
                         MinuteKey(filtered[j]) = k => i <= j
  IN [n \in 1..Len(keys) |-> filtered[first(keys[n])]]

\* lines 37-67: what read_logs(hours=1) returns
read_logs_hour ==
  FirstPerMinute(
    Filtered(ParseUntilError(LastLines(rdurable.lines, MAX_LINES_HOUR))
               \o ScratchRecords(rscratch),
             HourNow))

\* the durable log holds the older Samples, the scratch file the newer ones
InitHour ==
  /\ CoreInit
  /\ \E D \in SUBSET SampleTimes, B \in SUBSET SampleTimes :
       /\ \A d \in D, b \in B : d < b
       /\ dataFile = File(SamplesAt(D))
       /\ shm = [exists |-> TRUE, items |-> SamplesAt(B), closed |-> TRUE]
  /\ CacheInit
  /\ ChartInit

NextHour == ReadDurable \/ ReadScratch \/ ReadReturn

SpecHour == InitHour /\ [][NextHour]_vars

TypeOK ==
  /\ now \in StartTime..MaxTime
  /\ exc \in {"none", "flush", "scratch", "cleanup"}
  /\ rpc \in {"idle", "scratch", "done"}

\* ================================================================ claims
\* the records of a list as the lines the log holds for them
ExpectedLines(list) ==
  [i \in 1..Len(list) |-> <<list[i].timestamp, list[i].cpu_usage>>]

\* the instant a line's record was sampled
LineTime(l) == fromisoformat(l[1])

EndsWith(ls, tl) ==
  /\ Len(ls) >= Len(tl)
  /\ SubSeq(ls, Len(ls) - Len(tl) + 1, Len(ls)) = tl

StartsWith(ls, hd) ==
  /\ Len(ls) >= Len(hd)
  /\ SubSeq(ls, 1, Len(hd)) = hd

\* C1: a Reader that reads the scratch file while the Collector writes it is
\* handed a complete JSON array (the previous one or the new one), never an
\* empty or partial document.
ReaderSeesCompleteScratch ==
  (rpc = "done" /\ rscratch.exists) => rscratch.closed

\* C2: whenever a Reader can run, no Sample is both in the durable log and
\* in the scratch file.
DurableScratchDisjoint ==
  \A i \in DOMAIN dataFile.lines : \A j \in DOMAIN shm.items :
    dataFile.lines[i] # shm.items[j]

\* C3: however SIGUSR1's flush_buffer interleaves with a tick, no Sample is
\* written to the durable log twice.
NoSampleWrittenTwice ==
  \A i, j \in DOMAIN dataFile.lines :
    i # j => dataFile.lines[i] # dataFile.lines[j]

\* C4: a Reader that reads the durable log while cleanup_old_data rewrites
\* it gets the whole log as it was before the cleanup or the whole log as
\* it is after it.
ReaderSeesWholeLogDuringCleanup ==
  [][(rpc = "idle" /\ rpc' = "scratch" /\ pc \in {"cl_open", "cl_write"})
       => rdurable'.lines \in {cl_lines, ExpectedLines(cl_data)}]_vars

\* C5: when a cleanup pass has completed, no record of the durable log is
\* older than now - retention, now being the time of the cleanup.
CleanupDropsExpired ==
  pc = "cl_ret" =>
    \A i \in DOMAIN dataFile.lines :
      LineTime(dataFile.lines[i]) >= now - RETENTION_DAYS

\* a cleanup has completed that dropped a record and kept another
CleanupDroppedSome ==
  /\ pc = "cl_ret"
  /\ dataFile.lines # <<>>
  /\ Len(dataFile.lines) < Len(cl_lines)

\* C6: when a cleanup pass has completed, the durable log is the log as it
\* was before, less the records older than now - retention: every record in
\* the window is there once, the same line, in the same order.
InWindow(l) == LineTime(l) >= now - RETENTION_DAYS
CleanupKeepsRetained ==
  pc = "cl_ret" => dataFile.lines = SelectSeq(cl_lines, InWindow)

\* a cleanup has completed that kept a record sampled exactly at the cutoff
\* and records of different content, and dropped an older one
CleanupKeptBoundary ==
  /\ pc = "cl_ret"
  /\ Len(dataFile.lines) < Len(cl_lines)
  /\ \E i \in DOMAIN dataFile.lines :
       LineTime(dataFile.lines[i]) = now - RETENTION_DAYS
  /\ \E i, j \in DOMAIN dataFile.lines :
       dataFile.lines[i][2] # dataFile.lines[j][2]

\* C7: a durable flush that fails with an I/O error leaves the collector
\* running (with its tail buffer, to be written by a later flush).
FlushFailureKeepsCollector ==
  exc = "flush" => (Running /\ buffer # <<>>)

\* C8: a scratch write that fails with an I/O error is skipped for the tick:
\* the Sample stays in the tail buffer and the collector keeps running.
ScratchFailureKeepsCollector ==
  exc = "scratch" => (Running /\ buffer # <<>>)

\* C9: a flush (the step that empties a non-empty tail buffer) leaves the
\* durable log ending with the buffer's records, one line each, in buffer
\* order; the hourly flush appends exactly the lines of the list it
\* iterates; and outside the cleanup's rewrite no step changes a line that
\* is already in the log.
FlushAppendsBuffer ==
  [][/\ (Running' /\ buffer # <<>> /\ buffer' = <<>>)
          => /\ dataFile'.exists
             /\ EndsWith(dataFile'.lines, ExpectedLines(buffer))
     /\ (pc = "fl_write" /\ pc' = "fl_clear")
          => dataFile'.lines = dataFile.lines \o ExpectedLines(flushIter)
     /\ (pc \notin {"cl_open", "cl_write"})
          => StartsWith(dataFile'.lines, dataFile.lines)]_vars

\* the hourly flush has just appended two or more Samples after older records
HourlyFlushDone ==
  /\ pc = "cleanup"
  /\ buffer = <<>>
  /\ Len(dataFile.lines) >= 4
  /\ dataFile.lines[1] = OldLog[1]

\* C10: every flush, hourly or external, is followed by a retention cleanup
\* before the next tick's append.
CleanupBeforeNextAppend ==
  pc = "append" => ~uncleaned

CacheFromOnePass ==
  \A k \in Keys : cache_data[k] # NoImg => cache_data[k].pass = passes

\* a second rebuild has replaced the cache and left a key out
SecondRebuildDone ==
  /\ hpc = "resp"
  /\ ~resp.hit
  /\ passes >= 2
  /\ \E k \in Keys : cache_data[k] # NoImg
  /\ \E k \in Keys : cache_data[k] = NoImg

\* C13: after a rebuild the cache holds exactly the charts whose render
\* succeeded: a chart that failed is left out and takes no other with it.
RenderFailureIsolated ==
  (hpc = "resp" /\ ~resp.hit /\ req.key \in Keys)
    => \A k \in Keys : (render[k] = "png" <=> cache_data[k] # NoImg)

\* a rebuild in which the first chart failed and a later one was rendered
RebuildWithFailure ==
  /\ hpc = "resp"
  /\ ~resp.hit
  /\ req.key \in Keys
  /\ render[KeySeq[1]] = "error"
  /\ render[KeySeq[Len(KeySeq)]] = "png"
  /\ cache_data[KeySeq[Len(KeySeq)]] # NoImg

\* the records of the lines that parse
RECURSIVE ParsedLines(_)
ParsedLines(lines) ==
  IF lines = <<>> THEN <<>>
  ELSE (IF Len(Head(lines)) = 2
          THEN <<[timestamp |-> Head(lines)[1], cpu_usage |-> Head(lines)[2]]>>
          ELSE <<>>)
       \o ParsedLines(Tail(lines))

\* C14: a malformed line of the durable log is skipped: read returns every
\* well-formed durable record, before and after it, and the scratch records;
\* and it does not stop the collector's retention cleanup.
MalformedLineSkipped ==
  /\ rpc = "done"
       => read_logs = ParsedLines(rdurable.lines) \o ScratchRecords(rscratch)
  /\ exc # "cleanup"

\* C15: read with window "all" returns every record of the durable log, in
\* log order, followed by every record of the scratch file, however long
\* the log is.
ReadAllReturnsWholeLog ==
  rpc = "done" =>
    /\ Len(read_logs) = Len(rdurable.lines) + Len(ScratchRecords(rscratch))
    /\ \A i \in DOMAIN rdurable.lines :
         /\ read_logs[i].timestamp = rdurable.lines[i][1]
         /\ read_logs[i].cpu_usage = rdurable.lines[i][2]

\* C16: whatever the series and whatever max_points >= 1, the lists that
\* downsample_data returns have at most max_points entries.
DownsampleWithinMax ==
  ds_pc = "done" =>
    /\ Len(ds_out.ts) <= ds_max
    /\ Len(ds_out.vals) <= ds_max

\* C17: a series of at most max_points entries comes back unchanged: the
\* same timestamps and the same values in the same order.
DownsampleIdentity ==
  (ds_pc = "done" /\ Len(ds_ts) <= ds_max) =>
    /\ ~ds_out.raised
    /\ ds_out.ts = ds_ts
    /\ ds_out.vals = ds_vals

\* a two-point series went through a call that allowed three points
ShortSeriesDownsampled ==
  /\ ds_pc = "done"
  /\ Len(ds_ts) = 2
  /\ ds_max = 3
  /\ ds_vals[1] # ds_vals[2]

\* the interval that ends at the code's index i
IntervalAt(i) == pg_ts[i + 1] - pg_ts[i]

\* the median by sorting: the interval with at most half of the intervals
\* below it and more than half at or below it (of an even number, the upper
\* of the two middle ones)
MedianByRank ==
  LET n == Len(pg_ts) - 1
  IN CHOOSE m \in {IntervalAt(i) : i \in 1..n} :
       /\ Cardinality({i \in 1..n : IntervalAt(i) < m}) <= n \div 2
       /\ Cardinality({i \in 1..n : IntervalAt(i) <= m}) > n \div 2

\* uniform 60 s spacing with one 600 s gap between index 5 and index 6
SixtySpacingOneGap ==
  /\ Len(pg_ts) >= 7
  /\ \A i \in 1..(Len(pg_ts) - 1) :
       IntervalAt(i) = (IF i = 6 THEN 600 ELSE 60)

\* C18: of a series of at least 2 points the gap boundaries are exactly
\* the indices whose interval exceeds max(3 * median interval, 300 s); the
\* series is drawn in contiguous segments that start at 0 and at exactly
\* those indices and cover every point once; 60 s spacing with one 600 s
\* gap between index 5 and 6 gives one boundary at 6 and the segments
\* [0, 6) and [6, len).
GapsSplitSeries ==
  (pg_pc = "done" /\ Len(pg_ts) >= 2) =>
    LET threshold == IF 3 * MedianByRank > 300 THEN 3 * MedianByRank ELSE 300
        n == Len(pg_drawn)
    IN /\ pg_gaps = {i \in 1..(Len(pg_ts) - 1) : IntervalAt(i) > threshold}
       /\ {pg_drawn[k][1] : k \in 1..n} = {0} \cup pg_gaps
       /\ n = Cardinality(pg_gaps) + 1
       /\ pg_drawn[1][1] = 0
       /\ pg_drawn[n][2] = Len(pg_ts)
       /\ \A k \in 1..n : pg_drawn[k][1] < pg_drawn[k][2]
       /\ \A k \in 1..(n - 1) : pg_drawn[k][2] = pg_drawn[k + 1][1]
       /\ \A j \in 0..(Len(pg_ts) - 1) :
            Cardinality({k \in 1..n :
                           pg_drawn[k][1] <= j /\ j < pg_drawn[k][2]}) = 1
       /\ SixtySpacingOneGap =>
            /\ pg_gaps = {6}
            /\ pg_drawn = <<<<0, 6>>, <<6, Len(pg_ts)>>>>

\* the series of the example has been plotted
ExampleSeriesPlotted ==
  /\ pg_pc = "done"
  /\ SixtySpacingOneGap

\* C19: at every render the y-axis upper bound is the configured default
\* ceiling when the largest value of that render's data does not exceed the
\* configured ceiling, and 1.1 times that value when it does; it is never
\* below the configured default.
YLimitFromThisRender ==
  yl_pc = "drawn" =>
    /\ yl_render.ylim =
         (IF yl_render.data_max * 10 <= DefaultCeiling THEN DefaultCeiling
          ELSE yl_render.data_max * 11)
    /\ yl_render.ylim >= DefaultCeiling

\* C19, amended: at every render the y-axis upper bound is the chart's
\* upper bound before the render (the configured default at first) when the
\* largest value of the render's data does not exceed it, and 1.1 times
\* that value when it does; it never decreases and is never below the
\* configured default.
YLimitRatchet ==
  /\ \A m \in DOMAIN limits : limits[m] >= DefaultCeiling
  /\ yl_pc = "drawn" =>
       /\ yl_render.ylim =
            (IF yl_render.data_max * 10 <= yl_render.before
               THEN yl_render.before
             ELSE yl_render.data_max * 11)
       /\ yl_render.ylim >= yl_render.before
       /\ yl_render.before >= DefaultCeiling

\* a chart whose bound an earlier render had raised was rendered from data
\* below the configured ceiling
RenderAfterRaise ==
  /\ yl_pc = "drawn"
  /\ yl_render.before > DefaultCeiling
  /\ yl_render.data_max * 10 <= DefaultCeiling

\* the two latest readings of collector c
Newest(c) == rt_seen[c][Len(rt_seen[c])]
Before(c) == rt_seen[c][Len(rt_seen[c]) - 1]

\* u tenths of a percent is 100 * (1 - idle_delta / total_delta) to the
\* nearest tenth, the even one of two equally near
NearestTenth(u, idle_delta, total_delta) ==
  LET exact == 1000 * (total_delta - idle_delta)
      off == u * total_delta - exact
  IN /\ 2 * off <= total_delta
     /\ 2 * off >= -total_delta
     /\ (2 * off = total_delta \/ 2 * off = -total_delta) => u % 2 = 0

\* C20: the first collect() of the CPU, network and disk I/O collectors
\* returns the neutral value (0; zero rates; zero counts) and keeps the
\* reading as previous state; the next call reports the change from the
\* reading before to its own: the CPU usage of the two deltas, for an
\* interface bytes per second, for a device the counts; (idle 100, total 200)
\* then (idle 150, total 300) gives 50.0.
FirstCollectNeutralThenDelta ==
  /\ \A c \in {"cpu", "network", "disk_io"} :
       rt_seen[c] # <<>> => rt_prev[c] = Newest(c)
  /\ Len(rt_seen.cpu) = 1 => rt_out.cpu = 0
  /\ Len(rt_seen.network) = 1 =>
       /\ DOMAIN rt_out.network = DOMAIN Newest("network")
       /\ \A i \in DOMAIN rt_out.network :
            /\ rt_out.network[i].rx_speed = [n |-> 0, d |-> 1]
            /\ rt_out.network[i].tx_speed = [n |-> 0, d |-> 1]
  /\ Len(rt_seen.disk_io) = 1 =>
       /\ DOMAIN rt_out.disk_io = DOMAIN Newest("disk_io")
       /\ \A d \in DOMAIN rt_out.disk_io :
            rt_out.disk_io[d] = [read_count |-> 0, write_count |-> 0]
  /\ Len(rt_seen.cpu) >= 2 =>
       LET idle_delta == Newest("cpu").idle - Before("cpu").idle
           total_delta == Newest("cpu").total - Before("cpu").total
       IN /\ total_delta > 0 => NearestTenth(rt_out.cpu, idle_delta, total_delta)
          /\ (Before("cpu") = [idle |-> 100, total |-> 200]
                /\ Newest("cpu") = [idle |-> 150, total |-> 300])
               => rt_out.cpu = 500
  /\ Len(rt_seen.network) >= 2 =>
       \A i \in DOMAIN Newest("network") \cap DOMAIN Before("network") :
         /\ i \in DOMAIN rt_out.network
         /\ rt_out.network[i].rx_speed.n * INTERVAL =
              (Newest("network")[i].rx - Before("network")[i].rx)
                * rt_out.network[i].rx_speed.d
         /\ rt_out.network[i].tx_speed.n * INTERVAL =
              (Newest("network")[i].tx - Before("network")[i].tx)
                * rt_out.network[i].tx_speed.d
  /\ Len(rt_seen.disk_io) >= 2 =>
       \A d \in DOMAIN Newest("disk_io") \cap DOMAIN Before("disk_io") :
         /\ d \in DOMAIN rt_out.disk_io
         /\ rt_out.disk_io[d].read_count =
              Newest("disk_io")[d].read_count - Before("disk_io")[d].read_count
         /\ rt_out.disk_io[d].write_count =
              Newest("disk_io")[d].write_count - Before("disk_io")[d].write_count

\* the second pass took the readings of the example and found traffic
SecondCollectDone ==
  /\ rt_pc = "sleep"
  /\ Len(rt_seen.cpu) = 2
  /\ rt_seen.cpu = <<[idle |-> 100, total |-> 200], [idle |-> 150, total |-> 300]>>
  /\ "eth0" \in DOMAIN rt_out.network
  /\ rt_out.network["eth0"].rx_speed # [n |-> 0, d |-> 1]
  /\ rt_out.disk_io["sda"].read_count > 0

\* C21: with the sensor path absent the temperature collector is tried at
\* most once in the run, and the sampling loop keeps running: it is never
\* ended by the missing sensor.
MissingSensorKeepsLoop ==
  /\ tm_failed <= 1
  /\ tm_pc # "dead"

\* the records of a sequence
Records(seq) == {seq[i] : i \in DOMAIN seq}

\* C22: read for the last hour returns exactly the records of the durable
\* log and of the scratch file whose timestamp is at or after now - 1 hour:
\* none that is older, and every one that is not.
HourReturnsAllSinceCutoff ==
  rpc = "done" =>
    Records(read_logs_hour) =
      {d \in Records(ParsedLines(rdurable.lines) \o ScratchRecords(rscratch)) :
         fromisoformat(d.timestamp) >= HourNow - HOUR}

\* C23: every point of the line drawn for a key of a multi-series chart
\* comes from one Sample: its timestamp is the timestamp of the Sample its
\* value is from, also when some Samples have no value for the key.
PointsFromOneSample ==
  ms_pc = "done" =>
    \A p \in DOMAIN ms_lines :
      \A i \in DOMAIN ms_lines[p] : ms_lines[p][i].ts = ms_lines[p][i].from

\* C24: while the cache is younger than the sampling interval no request
\* makes the charts be rebuilt, a request for a known chart that had no
\* data in the last rebuild included: it gets its 404 from the cache.
NoRebuildWhileFresh ==
  [][(/\ hpc = "idle"
      /\ hpc' = "resp"
      /\ wclock - cache_timestamp < INTERVAL)
       => /\ passes' = passes
          /\ cache_timestamp' = cache_timestamp]_vars

\* C25: the layout of an image that is served is the one of the request's
\* own User-Agent class, whichever client caused the last rebuild.
LayoutMatchesRequest ==
  (hpc = "resp" /\ resp.status = 200) => resp.img.mobile = req.mobile

====
